---- MODULE Spec2Model ----
(***************************************************************************)
(* Price-Is-Right: the run-orchestration core.                             *)
(*   DealAgentFramework  (src/main/deal_agent_framework.py)  result store  *)
(*   RateLimiter         (src/main/rate_limiter.py)          daily quota   *)
(*   GradioUI            (src/main/ui/gradio_ui.py)          worker thread *)
(*                                                           and observer  *)
(* The specifications share the definitions below:                         *)
(*   SpecStore  sequential calls on one DealAgentFramework                 *)
(*   SpecQuota  threads calling one RateLimiter across midnight            *)
(*   Spec       one _run_with_logging invocation: worker and observer      *)
(*   FairSpec   Spec with both threads scheduled fairly                    *)
(*   SpecRuns   several _run_with_logging invocations on one GradioUI      *)
(*   SpecOverlap  Spec while another invocation's worker is running        *)
(*   SpecRecipient  the workers' use of DealAgentFramework.user_email      *)
(*   SpecRestart  runs on a framework constructed again over its store     *)
(*   SpecSelect   runs and selections of a row of the displayed table      *)
(***************************************************************************)
EXTENDS Integers, Sequences, FiniteSets, TLC

VARIABLES
    env,            \* process configuration read from the environment
    memory,         \* DealAgentFramework.memory
    memory_json,    \* the persisted snapshot (database/memory.json or the blob memory.json)
    clock,          \* number of added_at stamps handed out so far
    fwRet,          \* outcome of the last DealAgentFramework call
    hst,            \* history of the store: what was appended, whether every write stored
    today,          \* the calendar date _get_current_ist_date returns now
    blobs,          \* workflow_run_<date>.json in the bucket, per date
    rl,             \* per thread: where it is inside increment_run_count
    rlRet,          \* outcome of the last RateLimiter call that ended
    hq,             \* history of the quota, per date
    wpc,            \* the worker thread of _run_with_logging: where it is
    opc,            \* the observer (the generator Gradio iterates): where it is
    log_queue,      \* queue.Queue fed by the QueueHandler on the root logger
    result_queue,   \* queue.Queue the worker puts its table on
    log_data,       \* the accumulated log buffer
    initial_result, \* _update_output's table of the store at its start
    final_result,   \* _update_output's final_result (None until a result is taken)
    wresult,        \* the worker's local result
    last,           \* the state most recently yielded to the caller
    hs,             \* history of the stream
    inv,            \* per _run_with_logging invocation: its stream and its worker
    user_email,     \* DealAgentFramework.user_email (0: None)
    alerted         \* outcome of the last _do_select

storeVars == <<memory, memory_json, clock, fwRet, hst>>
quotaVars == <<today, blobs, rl, rlRet, hq>>
streamVars == <<wpc, opc, log_queue, result_queue, log_data, initial_result,
                final_result, wresult, last, hs>>
runVars == <<inv, user_email, alerted>>
vars == <<env, storeVars, quotaVars, streamVars, runVars>>

(***************************************************************************)
(* Bounds.                                                                 *)
(***************************************************************************)
MaxAppends == 3     \* opportunities the Planner returns over one behaviour
MaxDeals == 2       \* distinct deals the Planner can return
MaxLimit == 2       \* largest configured MAX_DAILY_RUNS
MaxDate == 2        \* calendar dates a behaviour spans
MaxThreads == 2     \* threads calling the RateLimiter
MaxIncrements == 3  \* increment_run_count calls begun over one behaviour
MaxLogs == 2        \* records the agents log during one run()
MaxRuns == 2        \* _run_with_logging invocations over one behaviour
MaxOtherLogs == 1   \* records another invocation's worker logs meanwhile
MaxEmails == 2      \* distinct e-mail addresses the callers supply

Deals == 1..MaxDeals
Limits == 1..MaxLimit
Dates == 1..MaxDate
Threads == 1..MaxThreads
Runs == 1..MaxRuns
Emails == 1..MaxEmails

Min(a, b) == IF a < b THEN a ELSE b
Max(a, b) == IF a > b THEN a ELSE b

(***************************************************************************)
(* Configuration.  USE_GCP selects the remote backend; storage_client is   *)
(* None when USE_GCP is off or when _init_gcp_client failed.               *)
(***************************************************************************)
USE_GCP == env.USE_GCP
storage_client == env.storage_client
MAX_DAILY_RUNS == env.MAX_DAILY_RUNS

Envs ==
    { e \in [USE_GCP : BOOLEAN, storage_client : BOOLEAN, MAX_DAILY_RUNS : Limits] :
        e.storage_client => e.USE_GCP }

(***************************************************************************)
(* Opportunities and their persisted form.                                 *)
(***************************************************************************)
Unstamped == 0      \* added_at of an Opportunity the Planner has just returned

Opportunity(d, t) == [deal |-> d, added_at |-> t]

\* opportunity.model_dump(): the JSON object written for one entry
ModelDump(opp) == <<opp.deal, opp.added_at>>

\* Opportunity(**item)
ParseItem(item) == [deal |-> item[1], added_at |-> item[2]]

DumpLastOnly(mem) == IF mem = <<>> THEN <<>> ELSE <<ModelDump(mem[Len(mem)])>>

Dump(mem) == [i \in 1..Len(mem) |-> ModelDump(mem[i])]
Load(data) == [i \in 1..Len(data) |-> ParseItem(data[i])]

Absent == [kind |-> "absent", data |-> <<>>]
Garbage == [kind |-> "garbage", data |-> <<>>]
Json(data) == [kind |-> "json", data |-> data]

\* what the backend can do to one read or one write
ReadOutcomes == {"ok", "exists_raises", "download_raises", "bad_payload"}
WriteOutcomes == {"ok", "upload_raises", "open_raises", "dump_raises"}

Returned(v, n) == [raised |-> FALSE, value |-> v, logged |-> n]
Raised(n) == [raised |-> TRUE, value |-> <<>>, logged |-> n]

(***************************************************************************)
(* DealAgentFramework.read_memory                                          *)
(***************************************************************************)
read_memory(json, out) ==
    IF USE_GCP
    THEN IF ~storage_client THEN Returned(<<>>, 0)
         ELSE IF out = "exists_raises" THEN Raised(0)
         ELSE IF json.kind = "absent" THEN Returned(<<>>, 0)
         ELSE IF out \in {"download_raises", "bad_payload"} \/ json.kind = "garbage"
              THEN Returned(<<>>, 1)
         ELSE Returned(Load(json.data), 0)
    ELSE IF json.kind = "absent" THEN Returned(<<>>, 0)
         ELSE IF json.kind = "garbage" THEN Raised(0)
         ELSE Returned(Load(json.data), 0)

(***************************************************************************)
(* DealAgentFramework.write_memory: the snapshot is the whole sequence.    *)
(* stored tells whether the backend now holds that snapshot.               *)
(***************************************************************************)
WriteResult(r, j, s, n) == [raised |-> r, json |-> j, stored |-> s, logged |-> n]

write_memory(mem, json, out) ==
    LET data == Dump(mem) IN
    IF USE_GCP
    THEN IF ~storage_client THEN WriteResult(FALSE, json, FALSE, 0)
         ELSE IF out = "upload_raises" THEN WriteResult(FALSE, json, FALSE, 1)
         ELSE WriteResult(FALSE, Json(data), TRUE, 0)
    ELSE IF out = "open_raises" THEN WriteResult(TRUE, json, FALSE, 0)
         ELSE IF out = "dump_raises" THEN WriteResult(TRUE, Garbage, FALSE, 0)
         ELSE WriteResult(FALSE, Json(data), TRUE, 0)

(***************************************************************************)
(* DealAgentFramework.reset_memory                                         *)
(***************************************************************************)
TruncateKeepLast(mem) == SubSeq(mem, Max(1, Len(mem) - 1), Len(mem))

Truncate(mem) == SubSeq(mem, 1, Min(2, Len(mem)))

CallResult(r, m, j, s, n) ==
    [raised |-> r, memory |-> m, json |-> j, stored |-> s, logged |-> n]

reset_memory(mem, json, out) ==
    LET truncated_data == Dump(Truncate(mem))
        kept == Load(truncated_data)
        w == write_memory(kept, json, out)
    IN CallResult(w.raised, kept, w.json, w.stored, w.logged)

(***************************************************************************)
(* DealAgentFramework.run.  plan is what planner.plan did: it raised,      *)
(* returned None, or returned an Opportunity for plan.deal.                *)
(***************************************************************************)
Plans == [kind : {"raises", "none"}, deal : {1}] \cup [kind : {"opp"}, deal : Deals]

Stamp(opp, now) == [opp EXCEPT !.added_at = now]

run_always_writes(mem, json, plan, out, now) ==
    IF plan.kind = "raises" THEN CallResult(TRUE, mem, json, FALSE, 0)
    ELSE LET result == Stamp(Opportunity(plan.deal, Unstamped), now)
             appended == IF plan.kind = "none" THEN mem ELSE Append(mem, result)
             w == write_memory(appended, json, out)
         IN CallResult(w.raised, appended, w.json, w.stored, w.logged)

run(mem, json, plan, out, now) ==
    IF plan.kind = "raises" THEN CallResult(TRUE, mem, json, FALSE, 0)
    ELSE IF plan.kind = "none" THEN CallResult(FALSE, mem, json, FALSE, 0)
    ELSE LET result == Stamp(Opportunity(plan.deal, Unstamped), now)
             appended == Append(mem, result)
             w == write_memory(appended, json, out)
         IN CallResult(w.raised, appended, w.json, w.stored, w.logged)

(***************************************************************************)
(* RateLimiter.  The counter of a date is the blob workflow_run_<date>.json *)
(***************************************************************************)
NoRecord == [kind |-> "absent", date |-> 0, run_count |-> 0]
QuotaRecord(d, c) == [kind |-> "json", date |-> d, run_count |-> c]

\* the outcomes that can differ from "ok": only a configured backend is contacted
BackendReads == IF USE_GCP /\ storage_client THEN ReadOutcomes ELSE {"ok"}
BackendWrites == IF USE_GCP /\ storage_client THEN {"ok", "upload_raises"} ELSE {"ok"}

read_run_count_default(bl, date, out) ==
    IF ~USE_GCP THEN Returned(0, 1)
    ELSE IF ~storage_client THEN Returned(0, 0)
    ELSE IF out = "exists_raises" THEN Raised(0)
    ELSE IF bl[date].kind = "absent" THEN Returned(0, 0)
    ELSE IF out \in {"download_raises", "bad_payload"} THEN Returned(0, 1)
    ELSE Returned(0, 0)

\* RateLimiter._read_run_count on date `date`
read_run_count(bl, date, out) ==
    IF ~USE_GCP THEN Returned(0, 1)
    ELSE IF ~storage_client THEN Returned(0, 0)
    ELSE IF out = "exists_raises" THEN Raised(0)
    ELSE IF bl[date].kind = "absent" THEN Returned(0, 0)
    ELSE IF out \in {"download_raises", "bad_payload"} THEN Returned(0, 1)
    ELSE Returned(bl[date].run_count, 0)

write_run_count_true_on_failure(bl, date, count, out) ==
    IF ~USE_GCP THEN [ret |-> TRUE, blobs |-> bl, logged |-> 0]
    ELSE IF ~storage_client THEN [ret |-> FALSE, blobs |-> bl, logged |-> 0]
    ELSE IF out = "upload_raises" THEN [ret |-> TRUE, blobs |-> bl, logged |-> 1]
    ELSE [ret |-> TRUE, blobs |-> [bl EXCEPT ![date] = QuotaRecord(date, count)],
          logged |-> 0]

write_run_count_on_stored(bl, date, count, out) ==
    IF ~USE_GCP THEN [ret |-> TRUE, blobs |-> bl, logged |-> 0]
    ELSE IF ~storage_client THEN [ret |-> FALSE, blobs |-> bl, logged |-> 0]
    ELSE IF out = "upload_raises" THEN [ret |-> FALSE, blobs |-> bl, logged |-> 1]
    ELSE [ret |-> TRUE,
          blobs |-> [bl EXCEPT ![date] = QuotaRecord(date, bl[date].run_count + 1)],
          logged |-> 0]

\* RateLimiter._write_run_count on date `date`
write_run_count(bl, date, count, out) ==
    IF ~USE_GCP THEN [ret |-> TRUE, blobs |-> bl, logged |-> 0]
    ELSE IF ~storage_client THEN [ret |-> FALSE, blobs |-> bl, logged |-> 0]
    ELSE IF out = "upload_raises" THEN [ret |-> FALSE, blobs |-> bl, logged |-> 1]
    ELSE [ret |-> TRUE, blobs |-> [bl EXCEPT ![date] = QuotaRecord(date, count)],
          logged |-> 0]

can_run_inclusive(bl, date, out) ==
    LET r == read_run_count(bl, date, out)
        current_count == r.value
    IN [raised |-> r.raised,
        can_run |-> ~r.raised /\ current_count <= MAX_DAILY_RUNS,
        remaining |-> IF r.raised THEN 0 ELSE Max(0, MAX_DAILY_RUNS - current_count),
        logged |-> r.logged]

\* RateLimiter.can_run
can_run(bl, date, out) ==
    LET r == read_run_count(bl, date, out)
        current_count == r.value
    IN [raised |-> r.raised,
        can_run |-> ~r.raised /\ current_count < MAX_DAILY_RUNS,
        remaining |-> IF r.raised THEN 0 ELSE Max(0, MAX_DAILY_RUNS - current_count),
        logged |-> r.logged]

\* the backend is configured and did what the call asked of it
Served(out) == USE_GCP /\ storage_client /\ out = "ok"

(***************************************************************************)
(* GradioUI: tables, log records and the states the stream yields.         *)
(***************************************************************************)
\* sorted(opps, key=lambda opp: opp.added_at or "1970-01-01", reverse=True)
RECURSIVE SortedLatestFirst(_)
SortedLatestFirst(opps) ==
    IF opps = <<>> THEN <<>>
    ELSE LET latest == CHOOSE i \in 1..Len(opps) :
                          /\ \A j \in 1..Len(opps) : opps[j].added_at <= opps[i].added_at
                          /\ \A j \in 1..(i - 1) : opps[j].added_at < opps[i].added_at
             rest == [k \in 1..(Len(opps) - 1) |->
                         IF k < latest THEN opps[k] ELSE opps[k + 1]]
         IN <<opps[latest]>> \o SortedLatestFirst(rest)

\* GradioUI._table_for: highlight is "highlight_index is not None"
table_for(opps, highlight) ==
    LET sorted_opps == SortedLatestFirst(opps) IN
    [i \in 1..Len(sorted_opps) |->
        [new |-> (i = 1 /\ highlight), deal |-> sorted_opps[i].deal,
         date |-> sorted_opps[i].added_at]]

\* a record formatted by QueueHandler.emit, and log_utils.reformat of it
LogRecord(src, n) == [src |-> src, n |-> n, fmt |-> "ansi"]
reformat(message) == [message EXCEPT !.fmt = "html"]

KeepLastLog(buffer, message) == <<reformat(message)>>

PrependLog(buffer, message) == <<reformat(message)>> \o buffer

\* log_data.append(reformat(message))
AppendLog(buffer, message) == Append(buffer, reformat(message))

\* final_result is None, or the table taken from result_queue
NoResult == [set |-> FALSE, table |-> <<>>]
Result(table) == [set |-> TRUE, table |-> table]

\* final_result or initial_result: an empty table is falsy
ResultOr(fr, initial) == IF fr.set /\ fr.table # <<>> THEN fr.table ELSE initial

BreakAlways(fr) == TRUE

\* if final_result is not None: break
ShouldBreak(fr) == fr.set

\* RateLimiter.get_status_message, given what can_run returned
get_status_message(r) ==
    IF r.can_run THEN [text |-> "remaining", n |-> r.remaining]
    ELSE [text |-> "limit", n |-> 20]

NoStatus == [text |-> "", n |-> 0]

Yield(kind, buffer, table, interactive, status) ==
    [kind |-> kind, log_data |-> buffer, table |-> table,
     interactive |-> interactive, status |-> status]

\* n records logged by thread src, the k-th and following of that thread
Logged(src, k, n) == [i \in 1..n |-> LogRecord(src, k + i - 1)]

(***************************************************************************)
(* The state after construction.                                           *)
(***************************************************************************)
\* backend_ok: the backend stored the snapshot it was given (run, reset_memory)
\* or answered the read (read_memory)
FwRet(op, r, v, b, s, n) ==
    [op |-> op, raised |-> r, value |-> v, before |-> b, backend_ok |-> s, logged |-> n]

\* appended: the entries run() appended, in order; clean: every write stored its
\* snapshot; reset: reset_memory was called; raised: some run or reset raised
NoHistory == [appended |-> <<>>, clean |-> TRUE, reset |-> FALSE, raised |-> FALSE]

InitStoreVars ==
    /\ memory = <<>>
    /\ memory_json = Absent
    /\ clock = 0
    /\ fwRet = FwRet("none", FALSE, <<>>, <<>>, FALSE, 0)
    /\ hst = NoHistory

RlRet(op, t, r, a, n, ok, d, s) ==
    [op |-> op, thread |-> t, raised |-> r, can_run |-> a, remaining |-> n,
     ret |-> ok, date |-> d, served |-> s]

Idle == [pc |-> "idle", current_count |-> 0, date |-> 0]

\* per date: K increment calls ended; started of them begun on it; plain: they ran
\* one at a time and within the date; served: the backend served all their steps
QuotaHistory ==
    [K |-> [d \in Dates |-> 0], started |-> [d \in Dates |-> 0],
     plain |-> [d \in Dates |-> TRUE], served |-> [d \in Dates |-> TRUE],
     calls |-> 0]

InitQuotaVars ==
    /\ today = 1
    /\ blobs = [d \in Dates |-> NoRecord]
    /\ rl = [t \in Threads |-> Idle]
    /\ rlRet = RlRet("none", 0, FALSE, FALSE, 0, FALSE, 0, FALSE)
    /\ hq = QuotaHistory

\* what can_run() returned at the start of _run_with_logging
NotAsked == [asked |-> FALSE, raised |-> FALSE, can_run |-> FALSE, remaining |-> 0]
Asked(r) == [asked |-> TRUE, raised |-> r.raised, can_run |-> r.can_run,
             remaining |-> r.remaining]

\* the log_data State the caller passes in: empty, or what an earlier run left
InitialLogData == {<<>>, <<reformat(LogRecord("earlier", 1))>>}

\* taken: a result was taken from result_queue; atTake: what log_queue held then;
\* drained: a later poll found log_queue empty; wlogged: what the worker logged;
\* gate: the quota check at the entry; ran: how the worker's run() ended;
\* increments: the worker's calls of increment_run_count; served: the backend
\* served every RateLimiter call so far; yields: the states emitted so far;
\* initial_log_data: the buffer the invocation was given; others: the records
\* another invocation's worker logged meanwhile
StreamHistory ==
    [taken |-> FALSE, atTake |-> <<>>, drained |-> FALSE, wlogged |-> <<>>,
     ologged |-> 0, gate |-> NotAsked, ran |-> "none", increments |-> 0,
     served |-> TRUE, yields |-> 0, initial_log_data |-> <<>>, others |-> 0]

\* an invocation that has not begun: pc is the generator, wpc its worker thread,
\* snap what write_memory serialised, stored whether the backend took it,
\* email the e-mail the caller supplied (0: none yet), recipient the user_email
\* its plan() call was given (0: not called)
NotInvoked ==
    [pc |-> "idle", wpc |-> "none", snap |-> <<>>, stored |-> FALSE,
     email |-> 0, recipient |-> 0]

\* row 0: no row was selected yet; shown is the row the table displayed there
NoAlert ==
    [row |-> 0, raised |-> FALSE, opportunity |-> Opportunity(1, Unstamped),
     shown |-> [new |-> FALSE, deal |-> 1, date |-> Unstamped]]

InitRunVars ==
    /\ inv = [r \in Runs |-> NotInvoked]
    /\ user_email = 0
    /\ alerted = NoAlert

InitStreamVars ==
    /\ wpc = "none"
    /\ opc = "entry"
    /\ log_queue = <<>>
    /\ result_queue = <<>>
    /\ log_data = <<>>
    /\ initial_result = <<>>
    /\ final_result = NoResult
    /\ wresult = <<>>
    /\ last = Yield("none", <<>>, <<>>, FALSE, NoStatus)
    /\ hs = StreamHistory

(***************************************************************************)
(* SpecStore: calls on one framework, one at a time.                       *)
(***************************************************************************)
InitStore ==
    /\ env \in { e \in Envs : e.MAX_DAILY_RUNS = 1 }
    /\ InitStoreVars
    /\ InitQuotaVars
    /\ InitStreamVars
    /\ InitRunVars

CallRun(plan, out) ==
    /\ plan.kind = "opp" => clock < MaxAppends
    /\ LET r == run(memory, memory_json, plan, out, clock + 1) IN
        /\ memory' = r.memory
        /\ memory_json' = r.json
        /\ clock' = IF plan.kind = "opp" THEN clock + 1 ELSE clock
        /\ fwRet' = FwRet("run", r.raised, IF r.raised THEN <<>> ELSE r.memory,
                          memory, r.stored, r.logged)
        /\ hst' = IF plan.kind = "opp"
                  THEN [hst EXCEPT !.appended = Append(@, r.memory[Len(r.memory)]),
                                   !.clean = @ /\ r.stored,
                                   !.raised = @ \/ r.raised]
                  ELSE [hst EXCEPT !.raised = @ \/ r.raised]
    /\ UNCHANGED <<env, runVars, quotaVars, streamVars>>

CallResetMemory(out) ==
    /\ LET r == reset_memory(memory, memory_json, out) IN
        /\ memory' = r.memory
        /\ memory_json' = r.json
        /\ fwRet' = FwRet("reset_memory", r.raised, <<>>, memory, r.stored, r.logged)
        /\ hst' = [hst EXCEPT !.reset = TRUE, !.clean = @ /\ r.stored,
                            !.raised = @ \/ r.raised]
    /\ UNCHANGED <<env, runVars, clock, quotaVars, streamVars>>

CallReadMemory(out) ==
    /\ LET r == read_memory(memory_json, out) IN
        fwRet' = FwRet("read_memory", r.raised, r.value, memory, out = "ok", r.logged)
    /\ UNCHANGED <<env, runVars, memory, memory_json, clock, hst, quotaVars, streamVars>>

NextStore ==
    \/ \E plan \in Plans, out \in WriteOutcomes : CallRun(plan, out)
    \/ \E out \in WriteOutcomes : CallResetMemory(out)
    \/ \E out \in ReadOutcomes : CallReadMemory(out)

SpecStore == InitStore /\ [][NextStore]_vars
(***************************************************************************)
(* SpecRestart: runs on a framework whose process is started again over    *)
(* the same store.  __init__ loads self.memory with read_memory().         *)
(***************************************************************************)
\* DealAgentFramework.__init__: self.memory = self.read_memory().  A load that
\* raises leaves no framework to call, and the process is started again.
Construct(out) ==
    /\ LET r == read_memory(memory_json, out) IN
        /\ ~r.raised
        /\ memory' = r.value
        /\ fwRet' = FwRet("__init__", FALSE, r.value, memory, out = "ok", r.logged)
    /\ UNCHANGED <<env, runVars, memory_json, clock, hst, quotaVars, streamVars>>

NextRestart ==
    \/ \E plan \in Plans, out \in WriteOutcomes : CallRun(plan, out)
    \/ \E out \in ReadOutcomes : Construct(out)

SpecRestart == InitStore /\ [][NextRestart]_vars

(***************************************************************************)
(* SpecQuota: threads call can_run and increment_run_count while the date  *)
(* advances.  increment_run_count is two steps: _read_run_count, then      *)
(* _write_run_count, which asks for the date again.                        *)
(***************************************************************************)
InitQuota ==
    /\ env \in Envs
    /\ InitStoreVars
    /\ InitQuotaVars
    /\ InitStreamVars
    /\ InitRunVars

CanRun(t, out) ==
    /\ rl[t].pc = "idle"
    /\ LET r == can_run(blobs, today, out) IN
        rlRet' = RlRet("can_run", t, r.raised, r.can_run, r.remaining, FALSE,
                       today, Served(out))
    /\ UNCHANGED <<env, runVars, storeVars, streamVars, today, blobs, rl, hq>>

Busy(t) == \E u \in Threads \ {t} : rl[u].pc # "idle"

IncrementRead(t, out) ==
    /\ rl[t].pc = "idle"
    /\ hq.calls < MaxIncrements
    /\ LET r == read_run_count(blobs, today, out)
           h == [hq EXCEPT !.calls = @ + 1,
                           !.started[today] = @ + 1,
                           !.plain[today] = @ /\ ~Busy(t),
                           !.served[today] = @ /\ Served(out)]
       IN IF r.raised
          THEN /\ rl' = rl
               /\ rlRet' = RlRet("increment_run_count", t, TRUE, FALSE, 0, FALSE,
                                 today, FALSE)
               /\ hq' = h
          ELSE /\ rl' = [rl EXCEPT ![t] = [pc |-> "write", current_count |-> r.value,
                                           date |-> today]]
               /\ rlRet' = rlRet
               /\ hq' = h
    /\ UNCHANGED <<env, runVars, storeVars, streamVars, today, blobs>>

IncrementWrite(t, out) ==
    /\ rl[t].pc = "write"
    /\ LET new_count == rl[t].current_count + 1
           w == write_run_count(blobs, today, new_count, out)
       IN /\ blobs' = w.blobs
          /\ rlRet' = RlRet("increment_run_count", t, FALSE, FALSE, 0, w.ret,
                            today, Served(out))
          /\ hq' = [hq EXCEPT !.K[today] = @ + 1,
                              !.plain[today] = @ /\ rl[t].date = today,
                              !.plain[rl[t].date] = @ /\ rl[t].date = today,
                              !.served[today] = @ /\ Served(out)]
    /\ rl' = [rl EXCEPT ![t] = Idle]
    /\ UNCHANGED <<env, runVars, storeVars, streamVars, today>>

Midnight ==
    /\ today < MaxDate
    /\ today' = today + 1
    /\ UNCHANGED <<env, runVars, storeVars, streamVars, blobs, rl, rlRet, hq>>

NextQuota ==
    \/ \E t \in Threads, out \in BackendReads : CanRun(t, out)
    \/ \E t \in Threads, out \in BackendReads : IncrementRead(t, out)
    \/ \E t \in Threads, out \in BackendWrites : IncrementWrite(t, out)
    \/ Midnight

SpecQuota == InitQuota /\ [][NextQuota]_vars

(***************************************************************************)
(* Spec: one invocation of GradioUI._run_with_logging.  The observer is    *)
(* the generator the caller iterates; the worker is the thread it starts.  *)
(***************************************************************************)
Init ==
    /\ env \in Envs
    /\ memory_json \in {Absent, Json(Dump(<<Opportunity(1, 1)>>))}
    /\ memory = read_memory(memory_json, "ok").value
    /\ clock = 1
    /\ fwRet = FwRet("none", FALSE, <<>>, <<>>, FALSE, 0)
    /\ hst = NoHistory
    /\ today = 1
    /\ blobs \in { [d \in Dates |-> IF d = 1 THEN b ELSE NoRecord] :
                     b \in {NoRecord} \cup
                           { QuotaRecord(1, c) :
                               c \in IF USE_GCP /\ storage_client
                                     THEN 1..MAX_DAILY_RUNS ELSE {} } }
    /\ rl = [t \in Threads |-> Idle]
    /\ rlRet = RlRet("none", 0, FALSE, FALSE, 0, FALSE, 0, FALSE)
    /\ hq = QuotaHistory
    /\ wpc = "none"
    /\ opc = "entry"
    /\ log_queue = <<>>
    /\ result_queue = <<>>
    /\ log_data \in InitialLogData
    /\ initial_result = <<>>
    /\ final_result = NoResult
    /\ wresult = <<>>
    /\ last = Yield("none", <<>>, <<>>, FALSE, NoStatus)
    /\ hs = [StreamHistory EXCEPT !.initial_log_data = log_data]
    /\ InitRunVars

callVars == <<fwRet, hst, rl, rlRet, hq, today>>

\* _run_with_logging up to thread.start(): the quota check, the e-mail check,
\* the two queues, setup_logging, and the worker thread
RunWithLoggingNoReturn(out, email_ok) ==
    /\ opc = "entry"
    /\ LET r == can_run(blobs, today, out)
           h == [hs EXCEPT !.gate = Asked(r), !.served = @ /\ Served(out)]
       IN
        IF r.raised
        THEN /\ opc' = "raised"
             /\ hs' = h
             /\ UNCHANGED <<wpc, last>>
        ELSE IF ~r.can_run
        THEN /\ opc' = "snapshot"
             /\ last' = Yield("limit", log_data, table_for(memory, FALSE), TRUE,
                              [text |-> "limit_reached", n |-> MAX_DAILY_RUNS])
             /\ hs' = [h EXCEPT !.yields = @ + 1]
             /\ wpc' = "run"
        ELSE IF ~email_ok
        THEN /\ opc' = "rejected"
             /\ last' = Yield("invalid", log_data, table_for(memory, FALSE), TRUE,
                              [text |-> "invalid_email", n |-> 0])
             /\ hs' = [h EXCEPT !.yields = @ + 1]
             /\ wpc' = wpc
        ELSE /\ opc' = "snapshot"
             /\ wpc' = "run"
             /\ hs' = h
             /\ last' = last
    /\ UNCHANGED <<env, runVars, storeVars, quotaVars, log_queue, result_queue, log_data,
                   initial_result, final_result, wresult>>

RunWithLogging(out, email_ok) ==
    /\ opc = "entry"
    /\ LET r == can_run(blobs, today, out)
           h == [hs EXCEPT !.gate = Asked(r), !.served = @ /\ Served(out)]
       IN
        IF r.raised
        THEN /\ opc' = "raised"
             /\ hs' = h
             /\ UNCHANGED <<wpc, last>>
        ELSE IF ~r.can_run
        THEN /\ opc' = "rejected"
             /\ last' = Yield("limit", log_data, table_for(memory, FALSE), TRUE,
                              [text |-> "limit_reached", n |-> MAX_DAILY_RUNS])
             /\ hs' = [h EXCEPT !.yields = @ + 1]
             /\ wpc' = wpc
        ELSE IF ~email_ok
        THEN /\ opc' = "rejected"
             /\ last' = Yield("invalid", log_data, table_for(memory, FALSE), TRUE,
                              [text |-> "invalid_email", n |-> 0])
             /\ hs' = [h EXCEPT !.yields = @ + 1]
             /\ wpc' = wpc
        ELSE /\ opc' = "snapshot"
             /\ wpc' = "run"
             /\ hs' = h
             /\ last' = last
    /\ UNCHANGED <<env, runVars, storeVars, quotaVars, log_queue, result_queue, log_data,
                   initial_result, final_result, wresult>>

\* _update_output, first line: initial_result = self._table_for(self.agent_framework.memory)
Snapshot ==
    /\ opc = "snapshot"
    /\ initial_result' = table_for(memory, FALSE)
    /\ opc' = "poll_log"
    /\ UNCHANGED <<env, runVars, storeVars, quotaVars, wpc, log_queue, result_queue, log_data,
                   final_result, wresult, last, hs>>

\* log_queue.get_nowait(): a record is appended and a state yielded, or queue.Empty
PollLog ==
    /\ opc = "poll_log"
    /\ IF log_queue # <<>>
       THEN /\ log_data' = AppendLog(log_data, Head(log_queue))
            /\ log_queue' = Tail(log_queue)
            /\ last' = Yield("log", log_data', ResultOr(final_result, initial_result),
                             FALSE, NoStatus)
            /\ hs' = [hs EXCEPT !.yields = @ + 1]
            /\ opc' = opc
       ELSE /\ opc' = "poll_result"
            /\ hs' = [hs EXCEPT !.drained = hs.taken]
            /\ UNCHANGED <<log_data, log_queue, last>>
    /\ UNCHANGED <<env, runVars, storeVars, quotaVars, wpc, result_queue, initial_result,
                   final_result, wresult>>

\* result_queue.get_nowait() after queue.Empty on log_queue: the result is taken,
\* get_status_message() is called and a state yielded; or queue.Empty, and the
\* loop breaks or sleeps
PollResult(out) ==
    /\ opc = "poll_result"
    /\ IF result_queue # <<>>
       THEN LET r == can_run(blobs, today, out) IN
            /\ final_result' = Result(Head(result_queue))
            /\ result_queue' = Tail(result_queue)
            /\ hs' = [hs EXCEPT !.taken = TRUE, !.atTake = log_queue, !.drained = FALSE,
                                !.ologged = @ + r.logged,
                                !.served = @ /\ Served(out),
                                !.yields = IF r.raised THEN @ ELSE @ + 1]
            /\ IF r.raised
               THEN /\ opc' = "raised"
                    /\ UNCHANGED <<last, log_queue>>
               ELSE /\ opc' = "poll_log"
                    /\ log_queue' = log_queue \o Logged("observer", hs.ologged + 1, r.logged)
                    /\ last' = Yield("result", log_data, final_result'.table, TRUE,
                                     get_status_message(r))
       ELSE /\ opc' = IF ShouldBreak(final_result) THEN "done" ELSE "poll_log"
            /\ UNCHANGED <<final_result, result_queue, hs, last, log_queue>>
    /\ UNCHANGED <<env, runVars, storeVars, quotaVars, wpc, log_data, initial_result, wresult>>

\* the agents log a record while run() executes
WorkerLog ==
    /\ wpc = "run"
    /\ Len(hs.wlogged) < MaxLogs
    /\ LET record == LogRecord("worker", Len(hs.wlogged) + 1) IN
        /\ log_queue' = Append(log_queue, record)
        /\ hs' = [hs EXCEPT !.wlogged = Append(@, record)]
    /\ UNCHANGED <<env, runVars, storeVars, quotaVars, wpc, opc, result_queue, log_data,
                   initial_result, final_result, wresult, last>>

\* worker: result = self._do_run(email)
WorkerRun(plan, out) ==
    /\ wpc = "run"
    /\ Len(hs.wlogged) >= 1
    /\ plan.kind = "opp" => clock < MaxAppends
    /\ LET memory_before == Len(memory)
           r == run(memory, memory_json, plan, out, clock + 1)
           records == Logged("worker", Len(hs.wlogged) + 1, r.logged)
       IN /\ memory' = r.memory
          /\ memory_json' = r.json
          /\ clock' = IF plan.kind = "opp" THEN clock + 1 ELSE clock
          /\ log_queue' = log_queue \o records
          /\ hs' = [hs EXCEPT !.wlogged = @ \o records,
                              !.ran = IF r.raised THEN "raised" ELSE "returned"]
          /\ IF r.raised
             THEN wpc' = "failed" /\ wresult' = wresult
             ELSE /\ wpc' = "increment"
                  /\ wresult' = table_for(r.memory, Len(r.memory) > memory_before)
    /\ UNCHANGED <<env, runVars, callVars, blobs, opc, result_queue, log_data, initial_result,
                   final_result, last>>

\* worker: self.rate_limiter.increment_run_count()
WorkerIncrement(rout, wout) ==
    /\ wpc = "increment"
    /\ LET r == read_run_count(blobs, today, rout)
           w == write_run_count(blobs, today, r.value + 1, wout)
           n == IF r.raised THEN 0 ELSE r.logged + w.logged
           records == Logged("worker", Len(hs.wlogged) + 1, n)
       IN /\ wpc' = IF r.raised THEN "failed" ELSE "put"
          /\ blobs' = IF r.raised THEN blobs ELSE w.blobs
          /\ log_queue' = log_queue \o records
          /\ hs' = [hs EXCEPT !.wlogged = @ \o records,
                              !.increments = @ + 1,
                              !.served = @ /\ Served(rout) /\ Served(wout)]
    /\ UNCHANGED <<env, runVars, storeVars, callVars, opc, result_queue, log_data,
                   initial_result, final_result, wresult, last>>

\* worker: result_queue.put(result)
WorkerPut ==
    /\ wpc = "put"
    /\ result_queue' = Append(result_queue, wresult)
    /\ wpc' = "done"
    /\ UNCHANGED <<env, runVars, storeVars, quotaVars, opc, log_queue, log_data, initial_result,
                   final_result, wresult, last, hs>>

ObserverNext ==
    \/ \E out \in BackendReads, email_ok \in BOOLEAN : RunWithLogging(out, email_ok)
    \/ Snapshot
    \/ PollLog
    \/ \E out \in BackendReads : PollResult(out)

WorkerNext ==
    \/ WorkerLog
    \/ \E plan \in Plans, out \in WriteOutcomes : WorkerRun(plan, out)
    \/ \E rout \in BackendReads, wout \in BackendWrites : WorkerIncrement(rout, wout)
    \/ WorkerPut

Next == ObserverNext \/ WorkerNext

Spec == Init /\ [][Next]_vars

\* both threads are scheduled: a thread that can take a step eventually takes one
FairSpec == Spec /\ WF_vars(ObserverNext) /\ WF_vars(WorkerNext)
(***************************************************************************)
(* SpecRuns: invocations of _run_with_logging on one GradioUI, each with   *)
(* its own worker thread, sharing the framework and the rate limiter.      *)
(* write_memory is two steps: the snapshot is serialised, then the backend *)
(* is overwritten with it.                                                 *)
(***************************************************************************)
InitRuns ==
    /\ env \in Envs
    /\ InitStoreVars
    /\ InitQuotaVars
    /\ InitStreamVars
    /\ InitRunVars

\* what planner.plan answers a worker: the entries of concurrent runs differ by
\* their added_at stamps, so one deal is enough here
RunPlans == { p \in Plans : p.deal = 1 }

\* the worker of invocation r is inside DealAgentFramework.run
InRun(r) == inv[r].wpc \in {"plan", "dump", "store"}

\* _run_with_logging up to thread.start(); invocations are numbered as they arrive
Invoke(r, out, email_ok) ==
    /\ inv[r].pc = "idle"
    /\ \A q \in Runs : q < r => inv[q].pc # "idle"
    /\ LET c == can_run(blobs, today, out) IN
        inv' = [inv EXCEPT ![r] =
                   IF c.raised THEN [@ EXCEPT !.pc = "raised"]
                   ELSE IF ~c.can_run \/ ~email_ok THEN [@ EXCEPT !.pc = "rejected"]
                   ELSE [@ EXCEPT !.pc = "streaming", !.wpc = "plan"]]
    /\ hq' = [hq EXCEPT !.served[today] = @ /\ Served(out)]
    /\ UNCHANGED <<env, user_email, alerted, storeVars, today, blobs, rl, rlRet, streamVars>>

\* run(): planner.plan returns; a result is stamped and appended to self.memory
RunPlan(r, plan) ==
    /\ inv[r].wpc = "plan"
    /\ plan.kind = "opp" => clock < MaxAppends
    /\ IF plan.kind = "opp"
       THEN /\ memory' = Append(memory, Stamp(Opportunity(plan.deal, Unstamped), clock + 1))
            /\ clock' = clock + 1
            /\ inv' = [inv EXCEPT ![r].wpc = "dump"]
       ELSE /\ inv' = [inv EXCEPT ![r].wpc = IF plan.kind = "raises" THEN "failed"
                                             ELSE "increment"]
            /\ UNCHANGED <<memory, clock>>
    /\ UNCHANGED <<env, user_email, alerted, memory_json, fwRet, hst, quotaVars, streamVars>>

\* write_memory: data = [opportunity.model_dump() for opportunity in self.memory]
RunDump(r) ==
    /\ inv[r].wpc = "dump"
    /\ inv' = [inv EXCEPT ![r].wpc = "store", ![r].snap = memory]
    /\ UNCHANGED <<env, user_email, alerted, storeVars, quotaVars, streamVars>>

RunStoreLive(r, out) ==
    /\ inv[r].wpc = "store"
    /\ LET w == write_memory(memory, memory_json, out) IN
        /\ memory_json' = w.json
        /\ inv' = [inv EXCEPT ![r].wpc = IF w.raised THEN "failed" ELSE "increment",
                              ![r].stored = w.stored]
    /\ UNCHANGED <<env, user_email, alerted, memory, clock, fwRet, hst, quotaVars, streamVars>>

\* write_memory: the backend is overwritten with the serialised data
RunStore(r, out) ==
    /\ inv[r].wpc = "store"
    /\ LET w == write_memory(inv[r].snap, memory_json, out) IN
        /\ memory_json' = w.json
        /\ inv' = [inv EXCEPT ![r].wpc = IF w.raised THEN "failed" ELSE "increment",
                              ![r].stored = w.stored]
    /\ UNCHANGED <<env, user_email, alerted, memory, clock, fwRet, hst, quotaVars, streamVars>>

\* worker: self.rate_limiter.increment_run_count()
RunIncrement(r, rout, wout) ==
    /\ inv[r].wpc = "increment"
    /\ LET c == read_run_count(blobs, today, rout)
           w == write_run_count(blobs, today, c.value + 1, wout)
       IN /\ blobs' = IF c.raised THEN blobs ELSE w.blobs
          /\ inv' = [inv EXCEPT ![r].wpc = IF c.raised THEN "failed" ELSE "put"]
          /\ hq' = [hq EXCEPT !.served[today] = @ /\ Served(rout) /\ Served(wout)]
    /\ UNCHANGED <<env, user_email, alerted, storeVars, today, rl, rlRet, streamVars>>

\* worker: result_queue.put(result)
RunPut(r) ==
    /\ inv[r].wpc = "put"
    /\ inv' = [inv EXCEPT ![r].wpc = "done"]
    /\ UNCHANGED <<env, user_email, alerted, storeVars, quotaVars, streamVars>>

\* _update_output takes the result, asks for the status, and the stream ends
Receive(r, out) ==
    /\ inv[r].pc = "streaming"
    /\ inv[r].wpc = "done"
    /\ inv' = [inv EXCEPT ![r].pc = IF can_run(blobs, today, out).raised
                                    THEN "raised" ELSE "ended"]
    /\ hq' = [hq EXCEPT !.served[today] = @ /\ Served(out)]
    /\ UNCHANGED <<env, user_email, alerted, storeVars, today, blobs, rl, rlRet, streamVars>>

NextRuns ==
    \/ \E r \in Runs, out \in BackendReads, email_ok \in BOOLEAN : Invoke(r, out, email_ok)
    \/ \E r \in Runs, plan \in RunPlans : RunPlan(r, plan)
    \/ \E r \in Runs : RunDump(r)
    \/ \E r \in Runs, out \in WriteOutcomes : RunStore(r, out)
    \/ \E r \in Runs, rout \in BackendReads, wout \in BackendWrites :
          RunIncrement(r, rout, wout)
    \/ \E r \in Runs : RunPut(r)
    \/ \E r \in Runs, out \in BackendReads : Receive(r, out)

SpecRuns == InitRuns /\ [][NextRuns]_vars
(***************************************************************************)
(* SpecOverlap: the invocation of Spec while the worker of another         *)
(* invocation runs on the same framework.  Nothing in _run_with_logging    *)
(* keeps a second worker from starting; it shares self.agent_framework and *)
(* the root logger, where setup_logging has added this invocation's        *)
(* QueueHandler and nothing ever removes it.                               *)
(***************************************************************************)
\* the store is empty and the log buffer is new when the invocation begins
InitOverlap ==
    /\ Init
    /\ memory_json = Absent
    /\ log_data = <<>>

\* the other worker's run(): its opportunity is stamped, appended and saved
OtherRunAppends(plan, out) ==
    /\ plan.kind = "opp"
    /\ wpc # "none"
    /\ clock < MaxAppends
    /\ LET r == run(memory, memory_json, plan, out, clock + 1) IN
        /\ memory' = r.memory
        /\ memory_json' = r.json
        /\ clock' = clock + 1
    /\ UNCHANGED <<env, runVars, callVars, blobs, streamVars>>

\* the other worker logs a record: every QueueHandler on the root logger emits
\* it, this invocation's (once setup_logging has run) among them
OtherRunLogs ==
    /\ opc \notin {"entry", "rejected"}
    /\ wpc # "none"
    /\ hs.others < MaxOtherLogs
    /\ log_queue' = Append(log_queue, LogRecord("other", hs.others + 1))
    /\ hs' = [hs EXCEPT !.others = @ + 1]
    /\ UNCHANGED <<env, runVars, storeVars, quotaVars, wpc, opc, result_queue, log_data,
                   initial_result, final_result, wresult, last>>

OtherNext ==
    \/ \E plan \in { p \in Plans : p.deal = 1 }, out \in WriteOutcomes :
          OtherRunAppends(plan, out)
    \/ OtherRunLogs

NextOverlap == Next \/ OtherNext

SpecOverlap == InitOverlap /\ [][NextOverlap]_vars
(***************************************************************************)
(* SpecRecipient: the workers of several accepted invocations, from        *)
(* thread.start() to the Planner call.  _do_run stores the caller's e-mail *)
(* in the framework, and run() reads it back when it calls plan().         *)
(***************************************************************************)
\* _run_with_logging, past its checks: the worker thread is started with email
StartWorker(r, email) ==
    /\ inv[r].pc = "idle"
    /\ inv' = [inv EXCEPT ![r].pc = "streaming", ![r].wpc = "email", ![r].email = email]
    /\ UNCHANGED <<env, user_email, alerted, storeVars, quotaVars, streamVars>>

\* _do_run: self.agent_framework.user_email = email
RunSetEmail(r) ==
    /\ inv[r].wpc = "email"
    /\ user_email' = inv[r].email
    /\ inv' = [inv EXCEPT ![r].wpc = "plan"]
    /\ UNCHANGED <<env, alerted, storeVars, quotaVars, streamVars>>

\* run(): self.planner.plan(memory=self.memory, user_email=self.user_email)
RunCallsPlan(r) ==
    /\ inv[r].wpc = "plan"
    /\ inv' = [inv EXCEPT ![r].wpc = "planned", ![r].recipient = user_email]
    /\ UNCHANGED <<env, user_email, alerted, storeVars, quotaVars, streamVars>>

NextRecipient ==
    \/ \E r \in Runs, email \in Emails : StartWorker(r, email)
    \/ \E r \in Runs : RunSetEmail(r)
    \/ \E r \in Runs : RunCallsPlan(r)

SpecRecipient == InitRuns /\ [][NextRecipient]_vars
(***************************************************************************)
(* SpecSelect: runs on one framework, and selections of a row of the       *)
(* table that displays its memory.                                         *)
(***************************************************************************)
\* GradioUI._do_select: selected_index.index[0] is row - 1.  planner is None
\* until the first run() has called init_agents_as_needed.
DoSelect(row) ==
    /\ row \in 1..Len(table_for(memory, FALSE))
    /\ alerted' = [row |-> row, raised |-> fwRet.op # "run",
                   opportunity |-> memory[row],
                   shown |-> table_for(memory, FALSE)[row]]
    /\ UNCHANGED <<env, inv, user_email, storeVars, quotaVars, streamVars>>

NextSelect ==
    \/ \E plan \in Plans, out \in WriteOutcomes : CallRun(plan, out)
    \/ \E row \in 1..MaxAppends : DoSelect(row)

SpecSelect == InitStore /\ [][NextSelect]_vars

(***************************************************************************)
(* Claims about the stream (Spec, FairSpec).                               *)
(***************************************************************************)
Consumed(record, buffer) == \E j \in 1..Len(buffer) : buffer[j] = reformat(record)

C3_FailedRunEndsStream ==
    (wpc = "failed") ~> (opc \in {"done", "raised", "rejected"})

QuotaExhausted == hs.gate.asked /\ ~hs.gate.raised /\ ~hs.gate.can_run

\* C13: when can_run() reports allowed = False at the start of _run_with_logging,
\* no worker is started, no record or result is queued, the store and the counter
\* are as they were, exactly one state (the limit message) is emitted and the
\* stream ends; remaining is 0.
C13_QuotaExhaustionShortCircuits ==
    QuotaExhausted =>
        /\ opc = "rejected" /\ wpc = "none" /\ ~ENABLED Next
        /\ log_queue = <<>> /\ result_queue = <<>> /\ hs.wlogged = <<>>
        /\ hs.ran = "none" /\ clock = 1
        /\ memory = read_memory(memory_json, "ok").value
        /\ hs.increments = 0 /\ blobs[today].run_count >= MAX_DAILY_RUNS
        /\ hs.yields = 1 /\ last.kind = "limit"
        /\ hs.gate.remaining = 0

C13_Witness == QuotaExhausted /\ last.kind = "limit" /\ memory # <<>>

\* the worker calls increment_run_count() once, after run() returned and before
\* the result is put; never when run() raised
IncrementOrder ==
    /\ hs.increments <= 1
    /\ hs.increments = 1 => hs.ran = "returned" /\ wpc \in {"put", "done", "failed"}
    /\ hs.ran = "raised" => hs.increments = 0 /\ wpc = "failed"
    /\ (result_queue # <<>> \/ hs.taken) => hs.increments = 1 /\ wpc = "done"

\* the status of a counter that holds one run more than the entry check saw
CountsThisRun(gate) ==
    get_status_message([can_run |-> gate.remaining - 1 > 0,
                        remaining |-> gate.remaining - 1])

\* C14 (as stated): increment_run_count() is called once per run that completes,
\* after run() returned and before the result is put, never for a run that fails,
\* and the status computed when the result is observed counts this run.
C14_StatusCountsEveryRun ==
    /\ IncrementOrder
    /\ last.kind = "result" => last.status = CountsThisRun(hs.gate)

\* C14 (amended): the same order of calls; the status counts this run when the
\* counter is configured and the bucket served the entry check, the increment
\* and the status read.
C14_StatusCountsServedRun ==
    /\ IncrementOrder
    /\ (last.kind = "result" /\ hs.served) => last.status = CountsThisRun(hs.gate)

C14_Witness ==
    /\ last.kind = "result" /\ hs.served /\ hs.increments = 1
    /\ last.status = [text |-> "remaining", n |-> 1]
    /\ blobs[today].run_count = 1

\* C15: the observer never reads DealAgentFramework.memory between the start of
\* the worker and the receipt of its result.
C15_ObserverNeverReadsLiveStore ==
    ~(opc = "snapshot" /\ wpc # "none" /\ ~hs.taken)

\* C20: once the worker has put its result on result_queue, the observer
\* eventually emits a state carrying it and then terminates.
C20_ResultEventuallyShown ==
    (result_queue # <<>>) ~> (opc = "done" /\ hs.taken /\ final_result.set)
Reformatted(records) == [i \in 1..Len(records) |-> reformat(records[i])]

\* every record put on log_queue so far, in the order it was enqueued: the
\* worker's, then the ones get_status_message logged on the observer thread
Enqueued == hs.wlogged \o Logged("observer", 1, hs.ologged)

ResultShown == hs.taken /\ opc # "raised"

\* C30: the opportunity _do_select takes from memory for a selected row is the
\* one the displayed table showed in that row.
C30_SelectsDisplayedRow ==
    (alerted.row # 0 /\ ~alerted.raised) =>
        /\ alerted.opportunity.deal = alerted.shown.deal
        /\ alerted.opportunity.added_at = alerted.shown.date

\* C21: at every emitted state the log buffer is the initial buffer followed by
\* the records taken from log_queue so far, in the order they were enqueued:
\* none dropped, duplicated or reordered; each log state adds exactly one record.
C21_LogBufferIsFifo ==
    /\ log_data \o Reformatted(log_queue) = hs.initial_log_data \o Reformatted(Enqueued)
    /\ last.kind \in {"log", "result"} =>
          /\ last.log_data = log_data
          /\ Len(log_data) = Len(hs.initial_log_data) + hs.yields
                                - (IF ResultShown THEN 1 ELSE 0)

C21_Witness ==
    /\ opc = "done" /\ log_queue = <<>>
    /\ hs.initial_log_data # <<>>
    /\ hs.ologged >= 1 /\ Len(hs.wlogged) >= 2
    /\ Len(log_data) >= 4
\* C23: once a result has been observed every emitted state shows the table taken
\* from result_queue, whatever the result (an empty table too), and before that
\* the snapshot taken at the start of the stream; no later state reverts to it.
C23_ShowsResultOnceObserved ==
    /\ (last.kind = "log" /\ ~hs.taken) => last.table = initial_result
    /\ (last.kind \in {"log", "result"} /\ ResultShown) =>
          last.table = final_result.table

\* C24: the last state emitted by a stream that observed a result has the run
\* button enabled and carries the quota status message; no state emitted after
\* the result state disables the button or clears the status.
C24_ButtonStaysEnabledAfterResult ==
    (last.kind \in {"log", "result"} /\ ResultShown) =>
        last.interactive /\ last.status # NoStatus
\* C29: only records produced by this run are put on its log_queue: none logged
\* by another run's worker, and none after this run's stream has ended.
C29_OnlyOwnEventsQueued ==
    /\ \A i \in 1..Len(log_queue) : log_queue[i].src # "other"
    /\ \A i \in 1..Len(log_data) : log_data[i].src # "other"
    /\ opc = "done" => log_queue = <<>>

(***************************************************************************)
(* Claims about the result store (SpecStore).                              *)
(***************************************************************************)
IsAppend == fwRet.op = "run" /\ Len(memory) = Len(fwRet.before) + 1
IsReload == fwRet.op = "read_memory" /\ ~hst.reset

\* C7 as stated: after N appends through run() from an empty store (every run()
\* having returned normally), what read_memory() returns is exactly the N
\* appended entries in append order, whatever the backend did with the writes.
C7_ReloadAlways ==
    (IsReload /\ ~fwRet.raised /\ ~hst.raised) =>
        fwRet.value = hst.appended /\ Len(fwRet.value) = clock

\* C7 amended: after N appends through run() from an empty store, each of whose
\* write_memory() stored its snapshot on the backend, a read_memory() that the
\* backend answers returns exactly the N entries in the original append order.
C7_ReloadAfterStoredWrites ==
    (IsReload /\ hst.clean /\ fwRet.backend_ok) =>
        ~fwRet.raised /\ fwRet.value = hst.appended /\ Len(fwRet.value) = clock

C7_Witness ==
    /\ IsReload /\ hst.clean /\ fwRet.backend_ok
    /\ clock = 3 /\ Len(fwRet.value) = 3
    /\ fwRet.value[1].deal # fwRet.value[2].deal

\* C8: when persisting the snapshot fails during an append, the new entry stays in
\* memory and no error propagates to the caller of run().
C8_AppendSurvivesFailedSave ==
    (IsAppend /\ ~fwRet.backend_ok) =>
        /\ ~fwRet.raised
        /\ SubSeq(memory, 1, Len(fwRet.before)) = fwRet.before

\* C9: read_memory() on a malformed snapshot returns the empty sequence and does
\* not raise, as for an absent resource.
C9_MalformedReadsAsAbsent ==
    (fwRet.op = "read_memory" /\ memory_json.kind = "garbage") =>
        ~fwRet.raised /\ fwRet.value = <<>>

FirstTwo(s) == [i \in 1..(IF Len(s) < 2 THEN Len(s) ELSE 2) |-> s[i]]

\* C10 as stated: reset_memory() leaves the first min(n, 2) entries both in memory
\* and in the persisted snapshot; a second application changes nothing.
C10_ResetAlwaysPersists ==
    (fwRet.op = "reset_memory" /\ ~fwRet.raised /\ fwRet.before # <<>>) =>
        /\ memory = FirstTwo(fwRet.before)
        /\ memory_json = Json(Dump(FirstTwo(fwRet.before)))
        /\ Len(fwRet.before) <= 2 => memory = fwRet.before

\* C10 amended: reset_memory() leaves the first min(n, 2) entries, in their current
\* order, in memory, and also in the persisted snapshot whenever the snapshot write
\* succeeds; applied to an already truncated store it leaves memory unchanged.
C10_ResetKeepsFirstTwo ==
    fwRet.op = "reset_memory" =>
        /\ memory = FirstTwo(fwRet.before)
        /\ fwRet.backend_ok => memory_json = Json(Dump(FirstTwo(fwRet.before)))
        /\ Len(fwRet.before) <= 2 => memory = fwRet.before

C10_Witness ==
    /\ fwRet.op = "reset_memory" /\ fwRet.backend_ok
    /\ Len(fwRet.before) = 3 /\ Len(memory) = 2
    /\ memory[1].deal # fwRet.before[3].deal
    /\ memory_json.kind = "json" /\ Len(memory_json.data) = 2

\* C11: when the Planner returns an opportunity o, run() returns the previous
\* sequence with exactly o appended at the end, o.added_at is set, and the
\* entries already in the store keep their added_at.
C11_RunReturnsExtendedSequence ==
    IsAppend =>
        /\ ~fwRet.raised
        /\ fwRet.value = Append(fwRet.before, memory[Len(memory)])
        /\ memory[Len(memory)].added_at # Unstamped
        /\ \A i \in 1..Len(fwRet.before) : memory[i].added_at = fwRet.before[i].added_at

NoOpportunity == [kind |-> "none", deal |-> 1]

\* C12: when the Planner returns no opportunity, run() returns the sequence
\* unchanged and leaves the in-memory sequence and the persisted snapshot
\* untouched: no write reaches the backend.
C12_NoOpportunityChangesNothing ==
    [][(\E out \in WriteOutcomes : CallRun(NoOpportunity, out)) =>
          /\ memory' = memory
          /\ memory_json' = memory_json
          /\ ~fwRet'.raised /\ fwRet'.value = memory
          /\ ~fwRet'.backend_ok /\ fwRet'.logged = 0]_vars

C12_Witness ==
    /\ fwRet.op = "run" /\ ~fwRet.raised
    /\ fwRet.value = fwRet.before /\ memory = fwRet.before
    /\ Len(memory) = 2
    /\ memory_json = Json(Dump(memory))
\* C22: after run() appends and reset_memory() calls, one at a time, each of
\* whose writes the backend stored, the persisted snapshot is the whole
\* in-memory sequence, entry by entry in the same order.
C22_SnapshotIsWholeSequence ==
    (hst.clean /\ (clock > 0 \/ hst.reset)) =>
        /\ memory_json = Json(Dump(memory))
        /\ Load(memory_json.data) = memory

C22_Witness ==
    /\ hst.clean /\ hst.reset
    /\ fwRet.op = "run" /\ IsAppend
    /\ Len(memory) = 3
    /\ memory_json = Json(Dump(memory))
\* C27: a run() that returns never leaves fewer entries in the persisted
\* snapshot than the snapshot held before it, also after a construction whose
\* load degraded to the empty sequence.
C27_RunKeepsPersistedEntries ==
    [][(fwRet'.op = "run" /\ ~fwRet'.raised /\ memory_json.kind = "json")
         => /\ memory_json'.kind = "json"
            /\ Len(memory_json'.data) >= Len(memory_json.data)]_vars

(***************************************************************************)
(* Claims about the quota (SpecQuota).                                     *)
(***************************************************************************)
IsCheck == rlRet.op = "can_run" /\ ~rlRet.raised

\* C4 as stated: after exactly K sequential increment_run_count() calls within one
\* calendar day, starting from no record, can_run() returns (K < L, max(0, L - K)).
C4_CountsEveryIncrement ==
    (IsCheck /\ hq.plain[rlRet.date]) =>
        /\ rlRet.can_run = (hq.K[rlRet.date] < MAX_DAILY_RUNS)
        /\ rlRet.remaining = Max(0, MAX_DAILY_RUNS - hq.K[rlRet.date])

\* C4 amended: with the remote backend selected (USE_GCP), a storage client, and
\* every read and write of the counter served by the bucket, after exactly K
\* sequential increment_run_count() calls within one calendar day, starting from no
\* record for that day, can_run() returns (K < L, max(0, L - K)).
C4_CountsServedIncrements ==
    (IsCheck /\ hq.plain[rlRet.date] /\ hq.served[rlRet.date] /\ rlRet.served) =>
        /\ rlRet.can_run = (hq.K[rlRet.date] < MAX_DAILY_RUNS)
        /\ rlRet.remaining = Max(0, MAX_DAILY_RUNS - hq.K[rlRet.date])

C4_Witness ==
    /\ IsCheck /\ hq.plain[rlRet.date] /\ hq.served[rlRet.date] /\ rlRet.served
    /\ MAX_DAILY_RUNS = 2 /\ hq.K[rlRet.date] = 2
    /\ ~rlRet.can_run /\ rlRet.remaining = 0

\* C5: a count read or recorded on one date has no effect on another date: a
\* can_run() on a date on which no increment_run_count() was begun reports
\* remaining = MAX_DAILY_RUNS.
C5_FreshCounterEachDate ==
    (IsCheck /\ hq.started[rlRet.date] = 0) => rlRet.remaining = MAX_DAILY_RUNS

\* C6: whenever the counter backend is unconfigured or unreachable, can_run()
\* returns normally with (True, MAX_DAILY_RUNS).
C6_FailsOpen ==
    (rlRet.op = "can_run" /\ ~rlRet.served) =>
        ~rlRet.raised /\ rlRet.can_run /\ rlRet.remaining = MAX_DAILY_RUNS

\* a step in which thread t's increment_run_count() returns, and the record it
\* was to persist: today's, with the count it read plus one
IncrementReturns(t) == rl[t].pc = "write" /\ rl'[t].pc = "idle"
IncrementPersisted(t) == blobs'[today] = QuotaRecord(today, rl[t].current_count + 1)

\* C17 (as stated): increment_run_count() returns True exactly when it has
\* persisted today's record with the count it read plus one, on whichever backend
\* is configured, and False whenever nothing was written.
C17_TrueIffPersisted ==
    [][\A t \in Threads :
          IncrementReturns(t) =>
              /\ rlRet'.ret => IncrementPersisted(t)
              /\ ~rlRet'.ret => blobs' = blobs]_vars

\* C17 (amended): with USE_GCP on it returns True exactly when it has persisted
\* today's record with the count it read plus one in the bucket, and False when
\* nothing was written; with USE_GCP off it writes nothing and returns True.
C17_TrueIffPersistedRemotely ==
    [][\A t \in Threads :
          IncrementReturns(t) =>
              IF USE_GCP
              THEN /\ rlRet'.ret => IncrementPersisted(t)
                   /\ ~rlRet'.ret => blobs' = blobs
              ELSE rlRet'.ret /\ blobs' = blobs]_vars

C17_Witness ==
    /\ USE_GCP
    /\ rlRet.op = "increment_run_count" /\ ~rlRet.raised /\ rlRet.ret
    /\ blobs[rlRet.date] = QuotaRecord(rlRet.date, 2)
    /\ hq.plain[rlRet.date]

\* C18: two increments on the same date that both read the stored count c (0 on
\* a fresh date) and both report success leave run_count at c + 1 when they
\* overlap, where two increments one after the other leave c + 2.
C18_ConcurrentIncrementsUnderCount ==
    (today = 1 /\ hq.calls = 2 /\ hq.K[1] = 2 /\ hq.served[1]) =>
        blobs[1].run_count = IF hq.plain[1] THEN 2 ELSE 1

C18_Witness ==
    /\ today = 1 /\ hq.calls = 2 /\ hq.K[1] = 2 /\ hq.served[1]
    /\ ~hq.plain[1]
    /\ \A t \in Threads : rl[t].pc = "idle"
    /\ rlRet.op = "increment_run_count" /\ rlRet.ret
    /\ blobs[1] = QuotaRecord(1, 1)

\* C26: while increment_run_count calls run one at a time within one date, the
\* count stored for that date never decreases, whatever the reads return.
C26_StoredCountNeverDecreases ==
    [][(hq'.plain[today] /\ today' = today /\ blobs[today].kind = "json")
         => /\ blobs'[today].kind = "json"
            /\ blobs'[today].run_count >= blobs[today].run_count]_vars

(***************************************************************************)
(* Claims about concurrent runs (SpecRuns).                                *)
(***************************************************************************)
\* C16: at most one worker thread executes DealAgentFramework.run against the
\* framework at any time, whatever the sequence of _run_with_logging invocations.
C16_AtMostOneWorkerInRun ==
    Cardinality({ r \in Runs : InRun(r) }) <= 1

\* C19: when a worker overwrites the backend with a snapshot it serialised before
\* another worker's append, the persisted snapshot is that stale snapshot: it
\* lacks an entry that is in the in-memory sequence.
C19_StaleSnapshotOverwrites ==
    [][\A r \in Runs :
          (inv[r].wpc = "store" /\ inv'[r].wpc = "increment" /\ inv'[r].stored
              /\ Len(inv[r].snap) < Len(memory)) =>
                /\ memory_json' = Json(Dump(inv[r].snap))
                /\ \E i \in 1..Len(memory') :
                      \A j \in 1..Len(memory_json'.data) :
                          ParseItem(memory_json'.data[j]) # memory'[i]]_vars

C19_Witness ==
    /\ \A r \in Runs : inv[r].wpc = "done" /\ inv[r].stored
    /\ Len(memory) = 2
    /\ memory_json = Json(Dump(<<memory[1]>>))
\* C28: the recipient each run's plan() call receives is the e-mail supplied by
\* the caller that started that run.
C28_PlanGetsOwnRecipient ==
    \A r \in Runs : inv[r].recipient \in {0, inv[r].email}

\* C25: on one calendar day, with the remote counter serving every call, the
\* number of workers started never exceeds MAX_DAILY_RUNS, whatever the
\* interleaving of the invocations.
C25_DailyBoundOverRuns ==
    hq.served[today] =>
        Cardinality({ r \in Runs : inv[r].wpc # "none" }) <= MAX_DAILY_RUNS

====
